---------------------------- MODULE Spec2Model ----------------------------
(***************************************************************************)
(* South African ID numbers: the Luhn checksum validator (src/luhn.ts)     *)
(* and the decode-and-validate pipeline (src/parser.ts), driven by a       *)
(* caller that prepares a string, calls one public function and keeps      *)
(* what it returned.                                                       *)
(*                                                                         *)
(* A string is a sequence of one-character strings.  A Date is a record    *)
(* [y, m, d] of local calendar fields with m 0-indexed as in JavaScript;   *)
(* the clock is kept at day granularity (a birth Date is local midnight,   *)
(* so `date > new Date()` holds exactly when its day is after today).      *)
(***************************************************************************)
EXTENDS Integers, Sequences, FiniteSets, TLC

VARIABLES
    input,   \* the string the caller is about to pass
    edits,   \* how many changes the caller made to the vector it started from
    now,     \* the host clock: today's local date
    op,      \* the public function called last ("none" before any call)
    ret,     \* what that call returned
    reads    \* what the clock showed at the call's three `new Date()` points

vars == <<input, edits, now, op, ret, reads>>

---------------------------------------------------------------------------
(* Characters *)

Digits == {"0", "1", "2", "3", "4", "5", "6", "7", "8", "9"}

DigitSeq == <<"0", "1", "2", "3", "4", "5", "6", "7", "8", "9">>

\* String.prototype.trim's white space, as far as the alphabet here has it.
WhiteSpace == {" ", "\t"}

\* A letter stands for every character that is neither digit nor white space.
Chars == Digits \cup WhiteSpace \cup {"A"}

DigitVal(c) == CHOOSE n \in 0..9 : DigitSeq[n + 1] = c

\* JavaScript's NaN; every number parsed here is non-negative.
NaN == -1

isNaN(n) == n = NaN

\* JavaScript's null.
null == [null |-> TRUE]

---------------------------------------------------------------------------
(* Built-ins the source calls *)

RECURSIVE trimStart(_)
trimStart(s) ==
    IF s # <<>> /\ Head(s) \in WhiteSpace THEN trimStart(Tail(s)) ELSE s

RECURSIVE trimEnd(_)
trimEnd(s) ==
    IF s # <<>> /\ s[Len(s)] \in WhiteSpace
    THEN trimEnd(SubSeq(s, 1, Len(s) - 1))
    ELSE s

\* The slip of calling trimStart for trim.
trim_startOnly(s) == trimStart(s)

\* String(idNumber).trim()
trim(s) == trimEnd(trimStart(s))

\* s.slice(from, to) for 0 <= from <= to: clamped to the string's length.
slice(s, from, to) ==
    SubSeq(s, from + 1, IF to > Len(s) THEN Len(s) ELSE to)

RECURSIVE parseDigits(_, _)
parseDigits(s, acc) ==
    IF s = <<>> \/ Head(s) \notin Digits
    THEN acc
    ELSE parseDigits(Tail(s), acc * 10 + DigitVal(Head(s)))

\* parseInt(s, 10): leading white space is skipped, then the longest prefix
\* of decimal digits is read; NaN when there is none.  (No sign character
\* is in the alphabet.)
parseInt(s) ==
    LET t == trimStart(s)
    IN  IF t = <<>> \/ Head(t) \notin Digits THEN NaN ELSE parseDigits(t, 0)

isLeapYear(y) == (y % 4 = 0 /\ y % 100 # 0) \/ y % 400 = 0

\* Days of month m (0-indexed) of year y.
daysInMonth(y, m) ==
    IF m = 1 THEN (IF isLeapYear(y) THEN 29 ELSE 28)
    ELSE IF m \in {3, 5, 8, 10} THEN 30
    ELSE 31

\* new Date(year, monthIndex, day) for monthIndex >= 0, day >= 1: a day past
\* the end of the month rolls over into the following month(s).
RECURSIVE NewDate(_, _, _)
NewDate(year, monthIndex, day) ==
    IF monthIndex > 11 THEN NewDate(year + 1, monthIndex - 12, day)
    ELSE IF day > daysInMonth(year, monthIndex)
         THEN NewDate(year, monthIndex + 1, day - daysInMonth(year, monthIndex))
         ELSE [y |-> year, m |-> monthIndex, d |-> day]

\* a > b on Dates.
DateAfter(a, b) ==
    \/ a.y > b.y
    \/ a.y = b.y /\ a.m > b.m
    \/ a.y = b.y /\ a.m = b.m /\ a.d > b.d

\* The day after t: the clock crossing midnight.
NextDay(t) == NewDate(t.y, t.m, t.d + 1)

RECURSIVE AddDays(_, _)
AddDays(t, n) == IF n = 0 THEN t ELSE AddDays(NextDay(t), n - 1)

---------------------------------------------------------------------------
(* src/luhn.ts *)

\* The slip of keeping the last digit of a doubled digit (10 -> 0) in place
\* of taking 9 off (10 -> 1).
RECURSIVE luhnLoop_dropsCarry(_, _, _, _)
luhnLoop_dropsCarry(digits, i, sum, shouldDouble) ==
    IF i < 1 THEN sum % 10 = 0
    ELSE IF i \notin DOMAIN digits THEN FALSE
    ELSE LET digit == parseInt(<<digits[i]>>)
             doubled == (digit * 2) % 10
         IN  IF isNaN(digit) THEN FALSE
             ELSE luhnLoop_dropsCarry(digits, i - 1,
                           sum + (IF shouldDouble THEN doubled ELSE digit),
                           ~shouldDouble)

RECURSIVE luhnLoop(_, _, _, _)
luhnLoop(digits, i, sum, shouldDouble) ==
    IF i < 1 THEN sum % 10 = 0
    ELSE IF i \notin DOMAIN digits THEN FALSE
    ELSE LET digit == parseInt(<<digits[i]>>)
             doubled == IF digit * 2 > 9 THEN digit * 2 - 9 ELSE digit * 2
         IN  IF isNaN(digit) THEN FALSE
             ELSE luhnLoop(digits, i - 1,
                           sum + (IF shouldDouble THEN doubled ELSE digit),
                           ~shouldDouble)

\* The slip of doubling from the rightmost digit on.
luhn_doubleFirst(digits) == luhnLoop(digits, Len(digits), 0, TRUE)

luhn(digits) == luhnLoop(digits, Len(digits), 0, FALSE)

---------------------------------------------------------------------------
(* src/parser.ts *)

\* The slip of testing the length alone, as /^.{13}$/ would.
ID_REGEX_anyChar(id) == Len(id) = 13

\* ID_REGEX.test(id) with ID_REGEX = /^\d{13}$/
ID_REGEX(id) == Len(id) = 13 /\ \A i \in 1..Len(id) : id[i] \in Digits

\* The slip of taking the last two digits in each other's place.
extractSegments_lastTwoSwapped(id) ==
    [ yearPart         |-> slice(id, 0, 2),
      monthPart        |-> slice(id, 2, 4),
      dayPart          |-> slice(id, 4, 6),
      genderSequence   |-> slice(id, 6, 10),
      citizenshipDigit |-> slice(id, 10, 11),
      legacyDigit      |-> slice(id, 12, 13),
      checksumDigit    |-> slice(id, 11, 12) ]

extractSegments(id) ==
    [ yearPart         |-> slice(id, 0, 2),
      monthPart        |-> slice(id, 2, 4),
      dayPart          |-> slice(id, 4, 6),
      genderSequence   |-> slice(id, 6, 10),
      citizenshipDigit |-> slice(id, 10, 11),
      legacyDigit      |-> slice(id, 11, 12),
      checksumDigit    |-> slice(id, 12, 13) ]

\* The slip of turning the comparison round.
resolveYear_inverted(yy, today) ==
    IF 2000 + yy >= today.y THEN 2000 + yy ELSE 1900 + yy

\* The slip of leaving the 2000s out.
resolveYear_lastCentury(yy, today) == 1900 + yy

\* The slip of keeping this year's births out of the 2000s.
resolveYear_strict(yy, today) ==
    IF 2000 + yy < today.y THEN 2000 + yy ELSE 1900 + yy

\* `today` is what new Date() returns at line 43.
resolveYear(yy, today) ==
    LET currentYear == today.y
        year2000 == 2000 + yy
        year1900 == 1900 + yy
    IN  IF year2000 <= currentYear THEN year2000 ELSE year1900

\* The slip of testing the day against 31 alone and letting Date roll a day
\* past the month's end over into the next month.
parseDate_rollsOver(segments, clock) ==
    LET yy == parseInt(segments.yearPart)
        mm == parseInt(segments.monthPart)
        dd == parseInt(segments.dayPart)
    IN  IF isNaN(yy) \/ isNaN(mm) \/ isNaN(dd) THEN null
        ELSE IF mm < 1 \/ mm > 12 THEN null
        ELSE IF dd < 1 \/ dd > 31 THEN null
        ELSE LET date == NewDate(resolveYear(yy, clock[1]), mm - 1, dd)
             IN  IF DateAfter(date, clock[2]) THEN null ELSE date

\* The slip of counting today as the future.
parseDate_todayIsFuture(segments, clock) ==
    LET yy == parseInt(segments.yearPart)
        mm == parseInt(segments.monthPart)
        dd == parseInt(segments.dayPart)
    IN  IF isNaN(yy) \/ isNaN(mm) \/ isNaN(dd) THEN null
        ELSE IF mm < 1 \/ mm > 12 THEN null
        ELSE IF dd < 1 \/ dd > 31 THEN null
        ELSE LET year == resolveYear(yy, clock[1])
                 date == NewDate(year, mm - 1, dd)
             IN  IF date.y # year \/ date.m # mm - 1 \/ date.d # dd THEN null
                 ELSE IF ~DateAfter(clock[2], date) THEN null
                 ELSE date

\* clock[1] is the read in resolveYear, clock[2] the one at line 78.
parseDate(segments, clock) ==
    LET yy == parseInt(segments.yearPart)
        mm == parseInt(segments.monthPart)
        dd == parseInt(segments.dayPart)
    IN  IF isNaN(yy) \/ isNaN(mm) \/ isNaN(dd) THEN null
        ELSE IF mm < 1 \/ mm > 12 THEN null
        ELSE IF dd < 1 \/ dd > 31 THEN null
        ELSE LET year == resolveYear(yy, clock[1])
                 date == NewDate(year, mm - 1, dd)
             IN  IF date.y # year \/ date.m # mm - 1 \/ date.d # dd THEN null
                 ELSE IF DateAfter(date, clock[2]) THEN null
                 ELSE date

\* The slip of not counting a birthday that falls on today.
calculateAge_afterBirthday(dob, today) ==
    LET age == today.y - dob.y
        hasHadBirthdayThisYear ==
            \/ today.m > dob.m
            \/ today.m = dob.m /\ today.d > dob.d
    IN  IF ~hasHadBirthdayThisYear THEN age - 1 ELSE age

\* `today` is what new Date() returns at line 87.
calculateAge(dob, today) ==
    LET age == today.y - dob.y
        hasHadBirthdayThisYear ==
            \/ today.m > dob.m
            \/ today.m = dob.m /\ today.d >= dob.d
    IN  IF ~hasHadBirthdayThisYear THEN age - 1 ELSE age

\* The slip of handing the segments out with a failure.
invalid_withSegments(idNumber, reason) ==
    [ valid    |-> FALSE,
      idNumber |-> idNumber,
      reason   |-> reason,
      segments |-> extractSegments(idNumber) ]

invalid(idNumber, reason) ==
    [valid |-> FALSE, idNumber |-> idNumber, reason |-> reason]

\* The slip of taking 5000 itself for a female sequence.
Gender_above(genderSequence) ==
    IF genderSequence > 5000 THEN "male" ELSE "female"

\* Line 158: the gender of a gender sequence.
Gender(genderSequence) ==
    IF genderSequence >= 5000 THEN "male" ELSE "female"

\* The slip of giving the digit 2 a status of its own.
CitizenshipStatus_twoIsRefugee(citizenshipDigit) ==
    IF citizenshipDigit = <<"0">> THEN "citizen"
    ELSE IF citizenshipDigit = <<"1">> THEN "permanent_resident"
    ELSE "refugee"

\* The slip of taking "1" for the citizen's digit.
CitizenshipStatus_oneIsCitizen(citizenshipDigit) ==
    IF citizenshipDigit = <<"1">> THEN "citizen" ELSE "permanent_resident"

\* Lines 160-161: the citizenship status of an accepted citizenship digit.
CitizenshipStatus(citizenshipDigit) ==
    IF citizenshipDigit = <<"0">> THEN "citizen" ELSE "permanent_resident"

\* The slip of running the checksum step before the date and citizenship
\* steps.
parse_checksumFirst(idNumber, clock) ==
    LET id == trim(idNumber)
    IN  IF ~ID_REGEX(id) THEN invalid(id, "INVALID_FORMAT")
        ELSE IF ~luhn(id) THEN invalid(id, "INVALID_CHECKSUM")
        ELSE
        LET segments == extractSegments(id)
            dateOfBirth == parseDate(segments, clock)
            citizenshipDigit == segments.citizenshipDigit
        IN  IF dateOfBirth = null THEN invalid(id, "INVALID_DATE")
            ELSE IF citizenshipDigit \notin {<<"0">>, <<"1">>, <<"2">>}
                 THEN invalid(id, "INVALID_CITIZENSHIP_DIGIT")
            ELSE [ valid       |-> TRUE,
                   idNumber    |-> id,
                   dateOfBirth |-> dateOfBirth,
                   age         |-> calculateAge(dateOfBirth, clock[3]),
                   gender      |-> Gender(parseInt(segments.genderSequence)),
                   citizenship |-> CitizenshipStatus(citizenshipDigit),
                   isCitizen   |-> citizenshipDigit = <<"0">>,
                   segments    |-> segments ]

\* The slip of leaving the checksum step out.
parse_noChecksum(idNumber, clock) ==
    LET id == trim(idNumber)
    IN  IF ~ID_REGEX(id) THEN invalid(id, "INVALID_FORMAT")
        ELSE
        LET segments == extractSegments(id)
            dateOfBirth == parseDate(segments, clock)
            citizenshipDigit == segments.citizenshipDigit
        IN  IF dateOfBirth = null THEN invalid(id, "INVALID_DATE")
            ELSE IF citizenshipDigit \notin {<<"0">>, <<"1">>, <<"2">>}
                 THEN invalid(id, "INVALID_CITIZENSHIP_DIGIT")
            ELSE [ valid       |-> TRUE,
                   idNumber    |-> id,
                   dateOfBirth |-> dateOfBirth,
                   age         |-> calculateAge(dateOfBirth, clock[3]),
                   gender      |-> Gender(parseInt(segments.genderSequence)),
                   citizenship |-> CitizenshipStatus(citizenshipDigit),
                   isCitizen   |-> citizenshipDigit = <<"0">>,
                   segments    |-> segments ]

\* The slip of computing the age by the clock read the century was resolved
\* by, while the future check reads the clock anew.
parse_ageAtFirstRead(idNumber, clock) ==
    LET id == trim(idNumber)
    IN  IF ~ID_REGEX(id) THEN invalid(id, "INVALID_FORMAT")
        ELSE
        LET segments == extractSegments(id)
            dateOfBirth == parseDate(segments, clock)
            citizenshipDigit == segments.citizenshipDigit
        IN  IF dateOfBirth = null THEN invalid(id, "INVALID_DATE")
            ELSE IF citizenshipDigit \notin {<<"0">>, <<"1">>, <<"2">>}
                 THEN invalid(id, "INVALID_CITIZENSHIP_DIGIT")
            ELSE IF ~luhn(id) THEN invalid(id, "INVALID_CHECKSUM")
            ELSE [ valid       |-> TRUE,
                   idNumber    |-> id,
                   dateOfBirth |-> dateOfBirth,
                   age         |-> calculateAge(dateOfBirth, clock[1]),
                   gender      |-> Gender(parseInt(segments.genderSequence)),
                   citizenship |-> CitizenshipStatus(citizenshipDigit),
                   isCitizen   |-> citizenshipDigit = <<"0">>,
                   segments    |-> segments ]

\* clock = <<t1, t2, t3>>: the clock at the three `new Date()` points a call
\* can reach (resolveYear, parseDate's future check, calculateAge).
RECURSIVE leading_zeros(_)
leading_zeros(s) ==
    IF s # <<>> /\ Head(s) = "0" THEN 1 + leading_zeros(Tail(s)) ELSE 0

\* The slip of storing the ID as the number it reads as, which drops its
\* leading zeros.
parse_storesNumber(idNumber, clock) ==
    LET id == trim(idNumber)
    IN  IF ~ID_REGEX(id) THEN invalid(id, "INVALID_FORMAT")
        ELSE
        LET segments == extractSegments(id)
            dateOfBirth == parseDate(segments, clock)
            citizenshipDigit == segments.citizenshipDigit
        IN  IF dateOfBirth = null THEN invalid(id, "INVALID_DATE")
            ELSE IF citizenshipDigit \notin {<<"0">>, <<"1">>, <<"2">>}
                 THEN invalid(id, "INVALID_CITIZENSHIP_DIGIT")
            ELSE IF ~luhn(id) THEN invalid(id, "INVALID_CHECKSUM")
            ELSE [ valid       |-> TRUE,
                   idNumber    |-> SubSeq(id, leading_zeros(id) + 1, Len(id)),
                   dateOfBirth |-> dateOfBirth,
                   age         |-> calculateAge(dateOfBirth, clock[3]),
                   gender      |-> Gender(parseInt(segments.genderSequence)),
                   citizenship |-> CitizenshipStatus(citizenshipDigit),
                   isCitizen   |-> citizenshipDigit = <<"0">>,
                   segments    |-> segments ]

parse(idNumber, clock) ==
    LET id == trim(idNumber)
    IN  IF ~ID_REGEX(id) THEN invalid(id, "INVALID_FORMAT")
        ELSE
        LET segments == extractSegments(id)
            dateOfBirth == parseDate(segments, clock)
            citizenshipDigit == segments.citizenshipDigit
        IN  IF dateOfBirth = null THEN invalid(id, "INVALID_DATE")
            ELSE IF /\ citizenshipDigit # <<"0">>
                    /\ citizenshipDigit # <<"1">>
                    /\ citizenshipDigit # <<"2">>
                 THEN invalid(id, "INVALID_CITIZENSHIP_DIGIT")
            ELSE IF ~luhn(id) THEN invalid(id, "INVALID_CHECKSUM")
            ELSE
            LET genderSequence == parseInt(segments.genderSequence)
                gender == Gender(genderSequence)
                citizenship == CitizenshipStatus(citizenshipDigit)
                age == calculateAge(dateOfBirth, clock[3])
            IN  [ valid       |-> TRUE,
                  idNumber    |-> id,
                  dateOfBirth |-> dateOfBirth,
                  age         |-> age,
                  gender      |-> gender,
                  citizenship |-> citizenship,
                  isCitizen   |-> citizenshipDigit = <<"0">>,
                  segments    |-> segments ]

\* A `T | null` return that is not null.
value(v) == [value |-> v]

\* The slip of a "lightweight" check that runs the checksum alone.
isValid_checksumOnly(idNumber, clock) == luhn(trim(idNumber))

isValid(idNumber, clock) == parse(idNumber, clock).valid

getDateOfBirth(idNumber, clock) ==
    LET result == parse(idNumber, clock)
    IN  IF result.valid THEN value(result.dateOfBirth) ELSE null

\* The slip of reading the gender off the digits without validating.
getGender_unchecked(idNumber, clock) ==
    value(Gender(parseInt(slice(trim(idNumber), 6, 10))))

getGender(idNumber, clock) ==
    LET result == parse(idNumber, clock)
    IN  IF result.valid THEN value(result.gender) ELSE null

getAge(idNumber, clock) ==
    LET result == parse(idNumber, clock)
    IN  IF result.valid THEN value(result.age) ELSE null

getCitizenship(idNumber, clock) ==
    LET result == parse(idNumber, clock)
    IN  IF result.valid THEN value(result.citizenship) ELSE null

---------------------------------------------------------------------------
(* The vectors the tests and examples use *)

\* src/__tests__/parser.test.ts:24
VALID_MALE_CITIZEN ==
    <<"9", "0", "0", "1", "0", "4", "9", "8", "1", "8", "0", "8", "0">>

\* src/__tests__/parser.test.ts:25
VALID_FEMALE_CITIZEN ==
    <<"7", "8", "0", "5", "0", "5", "0", "0", "5", "0", "0", "8", "3">>

\* src/__tests__/parser.test.ts:26
VALID_PR ==
    <<"8", "0", "0", "1", "0", "1", "5", "0", "0", "9", "0", "8", "7">>

\* src/__tests__/parser.test.ts:146 (month 13)
MONTH_13 ==
    <<"9", "0", "1", "3", "0", "4", "9", "8", "1", "8", "0", "8", "9">>

\* src/__tests__/parser.test.ts:158 (Feb 30)
FEB_30 ==
    <<"9", "0", "0", "2", "3", "0", "9", "8", "1", "8", "0", "8", "9">>

\* src/__tests__/parser.test.ts:170 (citizenship digit 5)
CITIZENSHIP_5 ==
    <<"9", "0", "0", "1", "0", "4", "9", "8", "1", "8", "5", "8", "0">>

\* src/__tests__/parser.test.ts:198
NOT_AN_ID ==
    <<"1", "2", "3", "4", "5", "6", "7", "8", "9", "0", "1", "2", "3">>

\* src/__tests__/parser.test.ts:130
EMPTY == <<>>

Vectors ==
    { VALID_MALE_CITIZEN, VALID_FEMALE_CITIZEN, VALID_PR, MONTH_13, FEB_30,
      CITIZENSHIP_5, NOT_AN_ID, EMPTY }

---------------------------------------------------------------------------
(* The host clock *)

Day(year, month, date) == [y |-> year, m |-> month - 1, d |-> date]

\* The dates a call can start on: around the birthday of VALID_MALE_CITIZEN,
\* and around the year in which "90" starts to resolve to 2090.
ClockDates ==
    {Day(2025, 1, 3), Day(2089, 12, 31), Day(2090, 1, 3)}

\* The same, with the turn of the century, a day of 2078 before the 5th of
\* May (when "780505" resolves to a day still to come) and the eve of the
\* year in which "80" starts to resolve to 2080.
APIClockDates ==
    ClockDates \cup {Day(2000, 1, 1), Day(2078, 1, 1), Day(2079, 12, 31)}

\* Dates around which every case of the date step lies: a leap day, a day
\* early in a year, the eve of a year and the eve of the year 2100.
IDClockDates ==
    {Day(2024, 2, 29), Day(2025, 1, 3), Day(2025, 12, 31), Day(2099, 12, 31)}

SampleDates == APIClockDates \cup IDClockDates

\* How many midnights the clock may cross between the first and the last
\* `new Date()` of one call.
MaxDrift == 1

\* The three reads of a call that starts at t: non-decreasing, at most
\* MaxDrift days apart.  The clock drifts only in a call that starts on one
\* of the dates above, which keeps the clock within a day or two of them.
ClockReads(t) ==
    { <<t, AddDays(t, d1), AddDays(t, d2)>> :
        <<d1, d2>> \in { p \in (0..MaxDrift) \X (0..MaxDrift) :
                           /\ p[1] <= p[2]
                           /\ p[2] > 0 => t \in SampleDates } }

---------------------------------------------------------------------------
(* The caller *)

\* The characters a caller's slip puts in place of another, or appends.
EditChars == {"0", "1", "5", "A", " "}

\* Longest run of white space the caller leaves on either side.
MaxPad == 1

NoReads == <<>>

Init ==
    /\ input \in Vectors
    /\ edits = 0
    /\ now \in ClockDates
    /\ op = "none"
    /\ ret = null
    /\ reads = NoReads

\* The caller drops what the last call returned.
Forget ==
    /\ op' = "none"
    /\ ret' = null
    /\ reads' = NoReads

\* Time passes between calls.
TickTo(dates) ==
    /\ \E t \in dates :
          /\ DateAfter(t, now)
          /\ now' = t
    /\ Forget
    /\ UNCHANGED <<input, edits>>

Tick == TickTo(ClockDates)

\* One character mistyped.
Replace ==
    /\ edits = 0
    /\ \E i \in DOMAIN input, c \in EditChars :
          /\ input[i] # c
          /\ input' = [input EXCEPT ![i] = c]
    /\ edits' = 1
    /\ Forget
    /\ UNCHANGED now

\* The last character left out.
DropLast ==
    /\ edits = 0
    /\ input # <<>>
    /\ input' = SubSeq(input, 1, Len(input) - 1)
    /\ edits' = 1
    /\ Forget
    /\ UNCHANGED now

\* One character too many.
AppendChar ==
    /\ edits = 0
    /\ \E c \in EditChars \ WhiteSpace : input' = input \o <<c>>
    /\ edits' = 1
    /\ Forget
    /\ UNCHANGED now

RECURSIVE leading(_)
leading(s) ==
    IF s # <<>> /\ Head(s) \in WhiteSpace THEN 1 + leading(Tail(s)) ELSE 0

RECURSIVE trailing(_)
trailing(s) ==
    IF s # <<>> /\ s[Len(s)] \in WhiteSpace
    THEN 1 + trailing(SubSeq(s, 1, Len(s) - 1))
    ELSE 0

\* A space in front of the string.
PadLeft ==
    /\ leading(input) < MaxPad
    /\ input' = <<" ">> \o input
    /\ Forget
    /\ UNCHANGED <<edits, now>>

\* White space of either kind after the string.
PadRight ==
    /\ trailing(input) < MaxPad
    /\ \E w \in WhiteSpace : input' = input \o <<w>>
    /\ Forget
    /\ UNCHANGED <<edits, now>>

\* parse(input)
CallParse ==
    /\ \E clock \in ClockReads(now) :
          /\ ret' = parse(input, clock)
          /\ reads' = clock
          /\ now' = clock[3]
    /\ op' = "parse"
    /\ UNCHANGED <<input, edits>>

\* isValid(input)
CallIsValid ==
    /\ \E clock \in ClockReads(now) :
          /\ ret' = isValid(input, clock)
          /\ reads' = clock
          /\ now' = clock[3]
    /\ op' = "isValid"
    /\ UNCHANGED <<input, edits>>

\* getDateOfBirth(input)
CallGetDateOfBirth ==
    /\ \E clock \in ClockReads(now) :
          /\ ret' = getDateOfBirth(input, clock)
          /\ reads' = clock
          /\ now' = clock[3]
    /\ op' = "getDateOfBirth"
    /\ UNCHANGED <<input, edits>>

\* getGender(input)
CallGetGender ==
    /\ \E clock \in ClockReads(now) :
          /\ ret' = getGender(input, clock)
          /\ reads' = clock
          /\ now' = clock[3]
    /\ op' = "getGender"
    /\ UNCHANGED <<input, edits>>

\* getAge(input)
CallGetAge ==
    /\ \E clock \in ClockReads(now) :
          /\ ret' = getAge(input, clock)
          /\ reads' = clock
          /\ now' = clock[3]
    /\ op' = "getAge"
    /\ UNCHANGED <<input, edits>>

\* getCitizenship(input)
CallGetCitizenship ==
    /\ \E clock \in ClockReads(now) :
          /\ ret' = getCitizenship(input, clock)
          /\ reads' = clock
          /\ now' = clock[3]
    /\ op' = "getCitizenship"
    /\ UNCHANGED <<input, edits>>

\* luhn(input): reads no clock.
CallLuhn ==
    /\ ret' = luhn(input)
    /\ op' = "luhn"
    /\ reads' = NoReads
    /\ UNCHANGED <<input, edits, now>>

Next ==
    \/ Tick
    \/ Replace
    \/ DropLast
    \/ AppendChar
    \/ PadLeft
    \/ PadRight
    \/ CallParse

\* The pipeline: parse on the vectors and on what one slip and some padding
\* make of them.
Spec == Init /\ [][Next]_vars

---------------------------------------------------------------------------
(* The public API on the vectors *)

InitAPI ==
    /\ input \in Vectors
    /\ edits = 0
    /\ now \in APIClockDates
    /\ op = "none"
    /\ ret = null
    /\ reads = NoReads

TickAPI == TickTo(APIClockDates)

NextAPI ==
    \/ TickAPI
    \/ PadLeft
    \/ PadRight
    \/ CallParse
    \/ CallIsValid
    \/ CallGetDateOfBirth
    \/ CallGetGender
    \/ CallGetAge
    \/ CallGetCitizenship
    \/ CallLuhn

SpecAPI == InitAPI /\ [][NextAPI]_vars

---------------------------------------------------------------------------
(* The checksum validator on arbitrary short strings *)

\* Longest string typed character by character.
MaxLuhnLen == 3

InitLuhn ==
    /\ input \in Vectors
    /\ edits = 0
    /\ now \in ClockDates
    /\ op = "none"
    /\ ret = null
    /\ reads = NoReads

\* The caller types one more character of a string it builds from scratch.
TypeChar ==
    /\ Len(input) < MaxLuhnLen
    /\ \E c \in Chars : input' = input \o <<c>>
    /\ Forget
    /\ UNCHANGED <<edits, now>>

NextLuhn ==
    \/ TypeChar
    \/ Replace
    \/ CallLuhn

SpecLuhn == InitLuhn /\ [][NextLuhn]_vars

---------------------------------------------------------------------------
(* parse on IDs composed field by field *)

\* n written with two digits, and with four.
TwoDigits(n) == <<DigitSeq[(n \div 10) + 1], DigitSeq[(n % 10) + 1]>>

FourDigits(n) == TwoDigits(n \div 100) \o TwoDigits(n % 100)

\* The digit that completes twelve digits to a string the checksum accepts.
CheckDigit(prefix) == CHOOSE z \in Digits : luhn(prefix \o <<z>>)

\* YYMMDD SSSS C A Z with A = 8 and Z the check digit.
ComposeID(yy, mm, dd, ssss, c) ==
    LET prefix == TwoDigits(yy) \o TwoDigits(mm) \o TwoDigits(dd)
                    \o FourDigits(ssss) \o <<c, "8">>
    IN  prefix \o <<CheckDigit(prefix)>>

\* Years on both sides of the current one, months and days on both sides
\* of what a calendar has.
YearParts == {0, 24, 25, 26, 99}

MonthParts == {0, 1, 2, 4, 12, 13}

DayParts == {0, 1, 3, 4, 29, 30, 31, 32}

\* Gender sequences around the threshold, and citizenship digits in and out
\* of range.
GenderSequences == {0, 4999, 5000, 9999}

CitizenshipDigits == {"0", "1", "2", "3", "9"}

\* Every date of birth above, for a male citizen.
DateIDs ==
    { ComposeID(yy, mm, dd, 9818, "0") :
        yy \in YearParts, mm \in MonthParts, dd \in DayParts }

\* Every gender sequence and citizenship digit above, for three dates of
\* birth.
FieldIDs ==
    { ComposeID(b[1], b[2], b[3], ssss, c) :
        b \in {<<0, 2, 29>>, <<25, 1, 3>>, <<25, 1, 4>>},
        ssss \in GenderSequences, c \in CitizenshipDigits }

ComposedIDs == DateIDs \cup FieldIDs

InitID ==
    /\ input \in ComposedIDs
    /\ edits = 0
    /\ now \in IDClockDates
    /\ op = "none"
    /\ ret = null
    /\ reads = NoReads

TickID == TickTo(IDClockDates)

NextID ==
    \/ TickID
    \/ PadLeft
    \/ PadRight
    \/ CallParse

SpecID == InitID /\ [][NextID]_vars

---------------------------------------------------------------------------
(* What the claims are stated in *)

\* s without its leading and trailing white space, said without trim: what
\* lies between the first and the last character that is not white space.
Trimmed(s) ==
    LET inner == { i \in 1..Len(s) : s[i] \notin WhiteSpace }
    IN  IF inner = {} THEN <<>>
        ELSE SubSeq(s, CHOOSE i \in inner : \A j \in inner : i <= j,
                       CHOOSE i \in inner : \A j \in inner : i >= j)

ThirteenDigits(t) == Len(t) = 13 /\ { t[i] : i \in 1..Len(t) } \subseteq Digits

\* The reason of an outcome; "none" for a Valid one.
ReasonOf(outcome) == IF outcome.valid THEN "none" ELSE outcome.reason

Reasons ==
    { "INVALID_FORMAT", "INVALID_DATE", "INVALID_CITIZENSHIP_DIGIT",
      "INVALID_CHECKSUM" }

ValidFields ==
    { "valid", "idNumber", "dateOfBirth", "age", "gender", "citizenship",
      "isCitizen", "segments" }

InvalidFields == {"valid", "idNumber", "reason"}

\* The three later checks on the 13 digits id, with the clock as the call
\* read it.
DateOk(id) == parseDate(extractSegments(id), reads) # null

CitizenshipOk(id) == id[11] \in {"0", "1", "2"}

ChecksumOk(id) == luhn(id)

---------------------------------------------------------------------------
(* The claims *)

\* C1: whenever parse was called on a string whose white-space-trimmed form
\* is not exactly 13 ASCII digits, the outcome is Invalid with reason
\* INVALID_FORMAT.
C1_MalformedIsInvalidFormat ==
    (op = "parse" /\ ~ThirteenDigits(Trimmed(input)))
        => (~ret.valid /\ ret.reason = "INVALID_FORMAT")

\* C1's case: 13 characters after trimming, one of them white space in the
\* middle, rejected for its format.
C1_Witness ==
    /\ op = "parse"
    /\ Len(Trimmed(input)) = 13
    /\ \E i \in 2..12 : Trimmed(input)[i] \in WhiteSpace
    /\ ReasonOf(ret) = "INVALID_FORMAT"

\* C2: the reason is that of the first failing check in the order format,
\* date, citizenship digit, checksum: 13 digits with a bad date give
\* INVALID_DATE whatever the later checks say, a good date with a bad
\* citizenship digit gives INVALID_CITIZENSHIP_DIGIT whatever the checksum
\* says, and INVALID_CHECKSUM is given only when format, date and
\* citizenship digit pass.
C2_FirstFailureWins ==
    op = "parse" =>
        LET id == Trimmed(input)
        IN  /\ (ThirteenDigits(id) /\ ~DateOk(id))
                => ReasonOf(ret) = "INVALID_DATE"
            /\ (ThirteenDigits(id) /\ DateOk(id) /\ ~CitizenshipOk(id))
                => ReasonOf(ret) = "INVALID_CITIZENSHIP_DIGIT"
            /\ ReasonOf(ret) = "INVALID_CHECKSUM"
                => /\ ThirteenDigits(id)
                   /\ DateOk(id)
                   /\ CitizenshipOk(id)
                   /\ ~ChecksumOk(id)

\* C2's case: date, citizenship digit and checksum all bad, and the date
\* is what is reported.
C2_Witness ==
    /\ op = "parse"
    /\ ThirteenDigits(Trimmed(input))
    /\ ~DateOk(Trimmed(input))
    /\ ~CitizenshipOk(Trimmed(input))
    /\ ~ChecksumOk(Trimmed(input))
    /\ ReasonOf(ret) = "INVALID_DATE"

\* C3: every call of parse returns exactly one of the two variants: a Valid
\* outcome with exactly the fields idNumber, dateOfBirth, age, gender,
\* citizenship, isCitizen and segments, or an Invalid outcome with exactly
\* idNumber and one of the four reasons (no segments, no derived field);
\* and it is Valid exactly when all four checks pass.
C3_ExactlyOneVariant ==
    op = "parse" =>
        LET id == Trimmed(input)
            allPass == /\ ThirteenDigits(id)
                       /\ DateOk(id)
                       /\ CitizenshipOk(id)
                       /\ ChecksumOk(id)
        IN  /\ ret.valid \in BOOLEAN
            /\ ret.valid => DOMAIN ret = ValidFields
            /\ ~ret.valid => DOMAIN ret = InvalidFields /\ ret.reason \in Reasons
            /\ ret.valid <=> allPass

\* C3's case: a call on a padded string that passed all four checks and
\* returned the Valid variant.
C3_Witness ==
    /\ op = "parse"
    /\ input # Trimmed(input)
    /\ ret.valid
    /\ DOMAIN ret = ValidFields

\* The clock stayed within the years from..to during the call.
ClockWithin(from, to) ==
    \A i \in DOMAIN reads : reads[i].y >= from /\ reads[i].y <= to

C6_MaleCitizenVector ==
    (op = "parse" /\ input = VALID_MALE_CITIZEN /\ ClockWithin(2000, 2089))
        => /\ ret.valid
           /\ ret.idNumber = VALID_MALE_CITIZEN
           /\ ret.dateOfBirth = Day(1990, 1, 4)
           /\ ret.gender = "male"
           /\ ret.citizenship = "citizen"
           /\ ret.isCitizen = TRUE
           /\ ret.segments =
                [ yearPart         |-> <<"9", "0">>,
                  monthPart        |-> <<"0", "1">>,
                  dayPart          |-> <<"0", "4">>,
                  genderSequence   |-> <<"9", "8", "1", "8">>,
                  citizenshipDigit |-> <<"0">>,
                  legacyDigit      |-> <<"8">>,
                  checksumDigit    |-> <<"0">> ]

\* C6's case: the vector parsed on the last day on which "90" still means
\* 1990.
C6_Witness ==
    /\ op = "parse"
    /\ input = VALID_MALE_CITIZEN
    /\ reads = <<Day(2089, 12, 31), Day(2089, 12, 31), Day(2089, 12, 31)>>
    /\ ret.valid
    /\ ret.dateOfBirth = Day(1990, 1, 4)

\* The digit at position i of s as the checksum counts it: every second
\* digit from the right, starting with the second, is doubled, and 9 is
\* taken off a double above 9.
LuhnTerm(s, i) ==
    LET v == DigitVal(s[i])
    IN  IF (Len(s) - i) % 2 = 1
        THEN (IF 2 * v > 9 THEN 2 * v - 9 ELSE 2 * v)
        ELSE v

RECURSIVE LuhnSum(_, _)
LuhnSum(s, n) == IF n = 0 THEN 0 ELSE LuhnSum(s, n - 1) + LuhnTerm(s, n)

AllDigits(s) == \A i \in 1..Len(s) : s[i] \in Digits

\* C7: luhn(s) is true exactly when every character of s is an ASCII digit
\* and the weighted sum is divisible by 10; so luhn("") is true, and a
\* string with a character that is no digit gives false.
C7_LuhnIffDigitsAndSum ==
    op = "luhn" =>
        /\ ret <=> (AllDigits(input) /\ LuhnSum(input, Len(input)) % 10 = 0)
        /\ input = <<>> => ret = TRUE
        /\ ~AllDigits(input) => ret = FALSE

\* C7's case: a string of digits whose weighted sum is a multiple of 10
\* other than 0.
C7_Witness ==
    /\ op = "luhn"
    /\ ret = TRUE
    /\ AllDigits(input)
    /\ LuhnSum(input, Len(input)) > 0

C9_IdNumberIsOriginalInput ==
    op = "parse" => ret.idNumber = input

C11_AccessorsAgreeWithParse ==
    LET outcome == parse(input, reads)
    IN  /\ op = "isValid" => ret = outcome.valid
        /\ op = "getDateOfBirth" =>
              ret = IF outcome.valid THEN value(outcome.dateOfBirth) ELSE null
        /\ op = "getGender" =>
              ret = IF outcome.valid THEN value(outcome.gender) ELSE null
        /\ op = "getAge" =>
              ret = IF outcome.valid THEN value(outcome.age) ELSE null
        /\ op = "getCitizenship" =>
              ret = IF outcome.valid THEN value(outcome.citizenship) ELSE null

\* getGender has answered null for an ID that fails at the citizenship
\* step only.
C11_Witness ==
    /\ op = "getGender"
    /\ ret = null
    /\ ReasonOf(parse(input, reads)) = "INVALID_CITIZENSHIP_DIGIT"

\* C12: the seven raw segments of a Valid outcome have the widths 2, 2, 2,
\* 4, 1, 1, 1 and, written one after the other in the order yearPart,
\* monthPart, dayPart, genderSequence, citizenshipDigit, legacyDigit,
\* checksumDigit, give the 13 characters of the input without its
\* surrounding white space.
C12_SegmentsRebuildTrimmedInput ==
    op = "parse" /\ ret.valid =>
        LET g == ret.segments
        IN  /\ <<Len(g.yearPart), Len(g.monthPart), Len(g.dayPart),
                 Len(g.genderSequence), Len(g.citizenshipDigit),
                 Len(g.legacyDigit), Len(g.checksumDigit)>>
                 = <<2, 2, 2, 4, 1, 1, 1>>
            /\ g.yearPart \o g.monthPart \o g.dayPart \o g.genderSequence
                 \o g.citizenshipDigit \o g.legacyDigit \o g.checksumDigit
                 = Trimmed(input)
            /\ Len(Trimmed(input)) = 13

\* A Valid outcome for a padded ID whose year, and whose gender sequence,
\* are all zeros.
C12_Witness ==
    /\ op = "parse"
    /\ ret.valid
    /\ input # Trimmed(input)
    /\ ret.segments.yearPart = <<"0", "0">>
    /\ ret.segments.genderSequence = <<"0", "0", "0", "0">>

\* C13: parse applied, under the same clock, to the idNumber a Valid outcome
\* stores returns that very outcome: the same idNumber, date of birth, age,
\* gender, citizenship, isCitizen and segments.
C13_ParseOfStoredIdNumber ==
    op = "parse" /\ ret.valid => parse(ret.idNumber, reads) = ret

\* A Valid outcome for a padded ID that starts with a zero.
C13_Witness ==
    /\ op = "parse"
    /\ ret.valid
    /\ ret.idNumber # input
    /\ ret.idNumber[1] = "0"
    /\ ret.segments.citizenshipDigit = <<"2">>

\* The calendar, said without Date: the years that are leap years and the
\* number of days of month 1..12 of a year.
LeapYear(year) == year % 4 = 0 /\ (year % 100 # 0 \/ year % 400 = 0)

MonthLength(year, month) ==
    IF month = 2 THEN (IF LeapYear(year) THEN 29 ELSE 28)
    ELSE IF month \in {4, 6, 9, 11} THEN 30
    ELSE 31

RealDate(year, month, day) ==
    month \in 1..12 /\ day \in 1..MonthLength(year, month)

\* A number that orders the days as the calendar does; month is 1..12.
Ord(year, month, day) == year * 10000 + month * 100 + day

OrdOf(date) == Ord(date.y, date.m + 1, date.d)

\* The numbers a 13-digit string carries in its first six digits.
YYOf(t) == DigitVal(t[1]) * 10 + DigitVal(t[2])

MMOf(t) == DigitVal(t[3]) * 10 + DigitVal(t[4])

DDOf(t) == DigitVal(t[5]) * 10 + DigitVal(t[6])

\* The year YY stands for when the year is `currentYear`.
CenturyYear(yy, currentYear) ==
    IF 2000 + yy <= currentYear THEN 2000 + yy ELSE 1900 + yy

C15_PastCenturyIsAccepted ==
    op = "parse" /\ ThirteenDigits(Trimmed(input)) /\ reads[1] = reads[3] =>
        LET t == Trimmed(input)
            past == { year \in {1900 + YYOf(t), 2000 + YYOf(t)} :
                        /\ RealDate(year, MMOf(t), DDOf(t))
                        /\ Ord(year, MMOf(t), DDOf(t)) <= OrdOf(reads[2]) }
        IN  past # {} =>
              /\ ReasonOf(ret) # "INVALID_DATE"
              /\ ret.valid =>
                    /\ ret.dateOfBirth.y \in past
                    /\ \A year \in past : year <= ret.dateOfBirth.y

\* C16: a 13-digit input passes the date step only if its month is 1..12,
\* its day is 1..31 and the day exists in that month of the resolved year;
\* anything else (Feb 30, Feb 29 of a resolved year that is no leap year,
\* the 31st of a 30-day month, month 00 or 13, day 00 or 32) is an
\* INVALID_DATE.  A day that exists in the resolved year and is not after
\* the current date passes the date step, and a Valid outcome is born on
\* it.
C16_DateStepAcceptsRealDates ==
    op = "parse" /\ ThirteenDigits(Trimmed(input)) =>
        LET t == Trimmed(input)
            year == CenturyYear(YYOf(t), reads[1].y)
            real == /\ MMOf(t) \in 1..12
                    /\ DDOf(t) \in 1..31
                    /\ RealDate(year, MMOf(t), DDOf(t))
        IN  /\ ~real => ReasonOf(ret) = "INVALID_DATE"
            /\ real /\ Ord(year, MMOf(t), DDOf(t)) <= OrdOf(reads[2])
                 => ReasonOf(ret) # "INVALID_DATE"
            /\ ret.valid =>
                 ret.dateOfBirth = [y |-> year, m |-> MMOf(t) - 1, d |-> DDOf(t)]

\* The 29th of February of a resolved year that is no leap year, after a
\* call on the 29th of February of one that is: INVALID_DATE.
C16_Witness ==
    /\ op = "parse"
    /\ ThirteenDigits(Trimmed(input))
    /\ MMOf(Trimmed(input)) = 2
    /\ DDOf(Trimmed(input)) = 29
    /\ ~LeapYear(CenturyYear(YYOf(Trimmed(input)), reads[1].y))
    /\ reads[1] = Day(2024, 2, 29)
    /\ ReasonOf(ret) = "INVALID_DATE"

\* C17: "today" being the day the clock shows when the date step compares,
\* no Valid outcome is born after today; a 13-digit input whose date is a
\* real date of the resolved year after today is an INVALID_DATE; one whose
\* date is today passes the date step.
C17_NoBirthAfterToday ==
    op = "parse" /\ ThirteenDigits(Trimmed(input)) =>
        LET t == Trimmed(input)
            year == CenturyYear(YYOf(t), reads[1].y)
            born == Ord(year, MMOf(t), DDOf(t))
            real == RealDate(year, MMOf(t), DDOf(t))
        IN  /\ ret.valid =>
                 /\ OrdOf(ret.dateOfBirth) <= OrdOf(reads[2])
                 /\ OrdOf(ret.dateOfBirth) <= OrdOf(reads[3])
            /\ real /\ born > OrdOf(reads[2])
                 => ~ret.valid /\ ret.reason = "INVALID_DATE"
            /\ real /\ born = OrdOf(reads[2]) => ReasonOf(ret) # "INVALID_DATE"

\* A Valid outcome born on the very day of the call.
C17_Witness ==
    /\ op = "parse"
    /\ ret.valid
    /\ reads[1] = reads[3]
    /\ ret.dateOfBirth = reads[2]

\* The (month, day) of a date as one number that orders the days of a year.
MonthDay(date) == (date.m + 1) * 100 + date.d

\* C18: "today" being the day the clock shows when the age is computed, the
\* age of a Valid outcome is today's year minus the year of birth, less one
\* exactly when today's (month, day) comes before the (month, day) of
\* birth; it is never negative.
C18_AgeIsCompletedYears ==
    op = "parse" /\ ret.valid =>
        LET today == reads[3]
            dob == ret.dateOfBirth
        IN  /\ ret.age = today.y - dob.y
                           - (IF MonthDay(today) < MonthDay(dob) THEN 1 ELSE 0)
            /\ ret.age >= 0

\* A Valid outcome whose birthday is today, years after the birth.
C18_Witness ==
    /\ op = "parse"
    /\ ret.valid
    /\ MonthDay(ret.dateOfBirth) = MonthDay(reads[3])
    /\ ret.age = reads[3].y - ret.dateOfBirth.y
    /\ ret.age > 0

\* The number the four digits of the gender sequence of a 13-digit string
\* read as.
SSSSOf(t) ==
    DigitVal(t[7]) * 1000 + DigitVal(t[8]) * 100 + DigitVal(t[9]) * 10
        + DigitVal(t[10])

\* C19: the gender of a Valid outcome is male exactly when the four digits
\* of the gender sequence read as a number that is 5000 or more, and female
\* otherwise.
C19_MaleFromFiveThousand ==
    op = "parse" /\ ret.valid =>
        /\ ret.gender \in {"male", "female"}
        /\ ret.gender = "male" <=> SSSSOf(Trimmed(input)) >= 5000

\* A Valid outcome with the gender sequence 5000, male.
C19_Witness ==
    /\ op = "parse"
    /\ ret.valid
    /\ ret.segments.genderSequence = <<"5", "0", "0", "0">>
    /\ ret.gender = "male"

\* C20: the citizenship digit, the 11th, is accepted only when it is 0, 1
\* or 2: with any other digit a 13-digit input that passes the date step is
\* an INVALID_CITIZENSHIP_DIGIT.  A Valid outcome with the digit 0 is a
\* citizen, one with 1 or 2 a permanent_resident, and isCitizen is true
\* exactly when citizenship is citizen.
C20_CitizenshipFromDigit ==
    op = "parse" /\ ThirteenDigits(Trimmed(input)) =>
        LET digit == Trimmed(input)[11]
        IN  /\ digit \notin {"0", "1", "2"} =>
                 /\ ~ret.valid
                 /\ ret.reason \in {"INVALID_DATE", "INVALID_CITIZENSHIP_DIGIT"}
            /\ ret.valid =>
                 /\ digit \in {"0", "1", "2"}
                 /\ digit = "0" => ret.citizenship = "citizen"
                 /\ digit \in {"1", "2"} =>
                      ret.citizenship = "permanent_resident"
                 /\ ret.isCitizen \in BOOLEAN
                 /\ ret.isCitizen <=> ret.citizenship = "citizen"

\* A Valid outcome with the digit 2: a permanent resident, no citizen.
C20_Witness ==
    /\ op = "parse"
    /\ ret.valid
    /\ Trimmed(input)[11] = "2"
    /\ ret.citizenship = "permanent_resident"
    /\ ~ret.isCitizen

\* C21: a call of parse reads the clock once, so that the century, the
\* future check and the age all go by one instant: what the call returns
\* is what parse makes of the input at one of the instants the clock showed
\* during the call.
C21_OneInstantPerCall ==
    op = "parse" =>
        \E t \in {reads[1], reads[2], reads[3]} :
            ret = parse(input, <<t, t, t>>)

\* C22: when the input is a string of 13 digits that luhn accepts, luhn
\* rejects it with any one digit replaced by another digit; and when parse
\* finds the input Valid, it finds it, with the last digit replaced by any
\* other, Invalid for the reason INVALID_CHECKSUM.
C22_SingleDigitErrorDetected ==
    op = "parse" /\ ThirteenDigits(input) /\ luhn(input) =>
        LET t == input
        IN  /\ \A i \in 1..13 : \A c \in Digits \ {t[i]} :
                  ~luhn([t EXCEPT ![i] = c])
            /\ ret.valid =>
                  \A c \in Digits \ {t[13]} :
                      LET altered == parse([t EXCEPT ![13] = c], reads)
                      IN  ~altered.valid /\ altered.reason = "INVALID_CHECKSUM"

\* A Valid outcome for an ID with a 0 and a 5 among the digits the checksum
\* doubles (the 12th, 10th, ... from the left).
C22_Witness ==
    /\ op = "parse"
    /\ ret.valid
    /\ input = ret.idNumber
    /\ luhn(input)
    /\ \E i \in {2, 4, 6, 8, 10, 12} : ret.idNumber[i] = "0"
    /\ \E i \in {2, 4, 6, 8, 10, 12} : ret.idNumber[i] = "5"

\* C23: when the clock shows one and the same day of the years 2000..2099
\* all through the call, the age of a Valid outcome is between 0 and 99.
C23_AgeBelowHundred ==
    /\ op = "parse"
    /\ ret.valid
    /\ reads[1] = reads[2]
    /\ reads[2] = reads[3]
    /\ reads[1].y \in 2000..2099
    => ret.age \in 0..99

\* A Valid outcome of age 99 on the last day of 2099, and the clock still.
C23_Witness ==
    /\ op = "parse"
    /\ ret.valid
    /\ reads = <<Day(2099, 12, 31), Day(2099, 12, 31), Day(2099, 12, 31)>>
    /\ ret.age = 99

\* C24: when the clock moves on between the reads of one call, across
\* midnight or into a new year, a Valid outcome is still born no later than
\* the last day the clock showed, and its age is not negative.
C24_AdvancingClockKeepsOutcomeSane ==
    op = "parse" /\ reads[1] # reads[3] /\ ret.valid =>
        /\ ~DateAfter(ret.dateOfBirth, reads[3])
        /\ ret.age >= 0

\* Midnight passes between the first read and the future check, and the
\* outcome is Valid with a birth on the new day, which the call's first
\* read had still ahead of it.
C24_Witness ==
    /\ op = "parse"
    /\ ret.valid
    /\ DateAfter(reads[2], reads[1])
    /\ ret.dateOfBirth = reads[3]
    /\ ret.age = 0

=============================================================================
